---- MODULE Spec2Model ----
(***************************************************************************)
(* EV-charging booking / payment / port-allocation flow.                   *)
(*                                                                         *)
(* The state is the Booking collection and the chargingPorts of the        *)
(* Station documents; one action per HTTP route handler, and Respond for   *)
(* the handler's return.  Identifiers keep their BSON type (ObjectId or    *)
(* string): Booking.stationId and Booking.portId are Schema.Types.Mixed,   *)
(* stored and queried without casting, and an ObjectId never equals its    *)
(* own hex string.                                                         *)
(***************************************************************************)
EXTENDS Integers, Sequences, FiniteSets, TLC

\* ------------------------------------------------------------------ bounds
MaxBookings == 2
\* bookings stored when every route is exercised (SpecRoutes)
MaxRouteBookings == 1
\* clock readings after the first
MaxSlots == 1
\* requested start times lie in the first HorizonSlots - 1 slots
HorizonSlots == 2

\* ------------------------------------------------------- program constants
DEFAULT_HOURLY_RATE_NPR == 200
PLACEHOLDER_MINUTES == 60
CHECKIN_DEFAULT_MINUTES == 60
CHECKIN_MIN_MINUTES == 30
CHECKIN_MAX_MINUTES == 480
\* minutes between two clock readings of the model
SlotMinutes == 30
\* ports of the seeded station
NumPorts == 2
\* hourly price of the seeded station
StationPerHour == 150

\* ------------------------------------------------- texts and BSON values
\* A text is a JSON string of a request body: the 24-hex-digit text of
\* ObjectId n ("hex"), a port number "P<n>" ("pn"), a file-station id
\* "station-<n>" ("file"), or absent / empty ("none").
Text(k, n) == [k |-> k, n |-> n]
NoText == Text("none", 0)
Hex(n) == Text("hex", n)
PortNumber(n) == Text("pn", n)
FileId(n) == Text("file", n)

\* A stored Mixed value: a BSON string or a BSON ObjectId.
BsonStr(x) == [t |-> "str", k |-> x.k, n |-> x.n]
BsonOid(n) == [t |-> "oid", k |-> "hex", n |-> n]
\* mongoose.Types.ObjectId.isValid on a text; /^[a-f\d]{24}$/i on a text
isValid(x) == x.k = "hex"
\* new mongoose.Types.ObjectId(text) when valid, else keep the string
ObjIdOrStr(x) == IF isValid(x) THEN BsonOid(x.n) ELSE BsonStr(x)
\* String(value): an ObjectId prints as its hex text, a string as itself
String(v) == Text(v.k, v.n)

\* ---------------------------------------------------------------- helpers
Min(a, b) == IF a < b THEN a ELSE b
Max(a, b) == IF a > b THEN a ELSE b
\* Math.round(p / q) for q > 0: halves round up
Round(p, q) == (2 * p + q) \div (2 * q)

\* ------------------------------------------------------------------ users
NoUser == "none"
\* User.role of the callers
Role(u) ==
  CASE u = "a1" -> "admin"
    [] u = "a2" -> "admin"
    [] u = "sa" -> "superadmin"
    [] OTHER -> "user"

IsAdminRole(u) == Role(u) = "admin" \/ Role(u) = "superadmin"

\* the User documents at the start: the admins, and a customer who has used
\* the application before; "u1" signs in for the first time
SeededUsers == {"a1", "a2", "sa", "u2"}

\* -------------------------------------------------------------- stations
DbStations == {1}
\* lib/stations (file-based demo stations) is outside the modelled
\* deployment: loadStationFromFile finds nothing
FileStations == {}
PortIdx == 1 .. NumPorts
FilePortIdx == {1}
PortKeys == DbStations \X PortIdx
\* the ObjectId of port k of station s
PortOid(s, k) == 10 * s + k
adminId(s) == "a1"
perHour(s) == StationPerHour

\* one more status accepted
PortStatuses_WithDisabled ==
  {"available", "occupied", "maintenance", "reserved", "disabled"}

PortStatuses == {"available", "occupied", "maintenance", "reserved"}
Live == {"pending", "confirmed", "active"}
Terminal == {"completed", "cancelled", "no-show"}
WalkInSources == {"walk-in-manual", "walk-in-qr"}
GatewayStatuses ==
  {"Completed", "Pending", "Initiated", "Refunded", "Expired",
   "User canceled", "Partially refunded"}

VARIABLES
  bookings,   \* the Booking collection, in insertion order; _id = index
  ports,      \* chargingPorts of the DB stations: <<s, k>> -> subdocument
  clock,      \* wall clock, minutes
  req,        \* the request being answered
  resp,       \* its response
  tx,         \* requests handled concurrently: each one's position
  users       \* the User collection: the clerkIds that have a document

vars == <<bookings, ports, clock, req, resp, tx, users>>

\* ----------------------------------------------------- request, response
Req0 ==
  [op |-> "none", caller |-> NoUser, stationId |-> NoText, portId |-> NoText,
   startTime |-> 0, endTime |-> 0, duration |-> 0, bookingId |-> 0,
   pidx |-> 0, lookup |-> "na", status |-> "na", loc |-> 0]

Resp0 == [status |-> 0, verified |-> "na", bookingId |-> 0, error |-> "none"]

Answer(code, err) == [Resp0 EXCEPT !.status = code, !.error = err]

\* the server takes the next request when the last one is answered
Idle == resp = Resp0

\* --------------------------------------------------------------- bookings
\* The schema defaults under the fields a handler sets.
NewBooking(u, sid, pid, start, end, dur, st, src, paid) ==
  [userId |-> u, stationId |-> sid, portId |-> pid, startTime |-> start,
   endTime |-> end, estimatedDuration |-> dur, status |-> st, source |-> src,
   khaltiPidx |-> 0, amountPaid |-> paid, qrCode |-> FALSE,
   userLocation |-> 0, eta |-> 0]

\* Booking.findById: 0 when no document has that _id
FindBooking(bks, id) == IF id \in 1 .. Len(bks) THEN id ELSE 0

\* Station.findById(text): the station, 0 when none, -1 for the CastError
\* of a text that is no ObjectId
FindStation(sid) ==
  IF ~isValid(sid) THEN -1 ELSE IF sid.n \in DbStations THEN sid.n ELSE 0

\* chargingPorts.find(p => String(p._id) === portId || p.portNumber === portId)
FindPort(s, pid) ==
  IF \E k \in PortIdx : Hex(PortOid(s, k)) = pid \/ PortNumber(k) = pid
  THEN CHOOSE k \in PortIdx : Hex(PortOid(s, k)) = pid \/ PortNumber(k) = pid
  ELSE 0

\* Station.updateOne({_id: sid, "chargingPorts._id": oid}, $set ...): the port
\* the positional operator addresses, 0 when the filter matches nothing
PortByOid(sid, oid) ==
  IF sid \in DbStations /\ \E k \in PortIdx : PortOid(sid, k) = oid
  THEN CHOOSE k \in PortIdx : PortOid(sid, k) = oid
  ELSE 0

\* --------------------------------------------- POST /api/payments/initiate
\* The station the handler finds: a DB document, a file-based station, none
\* (404), or a CastError thrown by findById on a text that is no ObjectId.
InitiateStation(sid) ==
  IF sid.k = "file"
  THEN (IF sid.n \in FileStations THEN [kind |-> "file", s |-> sid.n]
        ELSE [kind |-> "none", s |-> 0])
  ELSE IF FindStation(sid) = -1 THEN [kind |-> "err", s |-> 0]
  ELSE IF FindStation(sid) = 0 THEN [kind |-> "none", s |-> 0]
  ELSE [kind |-> "db", s |-> sid.n]

\* chargingPorts.find(p => String(p._id || p.portNumber) === portId), then
\* canonicalPortId; NoText when no port matches.  A DB port always has an
\* _id, a file-based port has only its portNumber.
InitiateCanonicalPort(st, pid) ==
  IF st.kind = "db"
  THEN (IF \E k \in PortIdx : Hex(PortOid(st.s, k)) = pid THEN pid ELSE NoText)
  ELSE (IF \E k \in FilePortIdx : PortNumber(k) = pid THEN pid ELSE NoText)

InitiatePerHour(st) ==
  IF st.kind = "db" THEN perHour(st.s) ELSE DEFAULT_HOURLY_RATE_NPR

\* the filter with closed interval ends
InitiateOverlapFilter_Closed(b, sid, canon, start, end) ==
  /\ b.stationId = BsonStr(sid)
  /\ b.portId = BsonStr(canon)
  /\ b.status \in {"pending", "confirmed", "active"}
  /\ b.startTime <= end
  /\ b.endTime >= start

\* the overlap query of the transaction
InitiateOverlapFilter(b, sid, canon, start, end) ==
  /\ b.stationId = BsonStr(sid)
  /\ b.portId = BsonStr(canon)
  /\ b.status \in {"pending", "confirmed", "active"}
  /\ b.startTime < end
  /\ b.endTime > start

InitiateOverlapping(bks, sid, canon, start, end) ==
  \E i \in 1 .. Len(bks) : InitiateOverlapFilter(bks[i], sid, canon, start, end)

\* a booking created confirmed
InitiateCreate_Confirmed(u, sid, canon, start, dur) ==
  NewBooking(u, BsonStr(sid), BsonStr(canon), start, start + dur, dur,
             "confirmed", "online", 0)

\* Booking.create inside the transaction
InitiateCreate(u, sid, canon, start, dur) ==
  NewBooking(u, BsonStr(sid), BsonStr(canon), start, start + dur, dur,
             "pending", "online", 0)

\* what the handler sets after the commit and saves with booking.save()
InitiateSave(b, id, loc, eta, amount) ==
  [b EXCEPT !.khaltiPidx = id, !.amountPaid = amount, !.qrCode = TRUE,
            !.userLocation = IF eta # 0 THEN loc ELSE 0, !.eta = eta]

\* User.findOne({clerkId}) and, when there is none, User.create from the
\* Clerk profile: before the body is read
InitiateUser(us, u) == IF u = NoUser THEN us ELSE us \cup {u}

\* the answer up to the transaction: 0 when the handler reaches it
InitiateEarly(u, sid, pid, dur) ==
  LET st == InitiateStation(sid)
  IN IF u = NoUser THEN 401
     ELSE IF sid = NoText \/ pid = NoText \/ dur = 0 THEN 400
     ELSE IF st.kind = "err" THEN 500
     ELSE IF st.kind = "none" THEN 404
     ELSE IF InitiateCanonicalPort(st, pid) = NoText THEN 404
     ELSE 0

\* the handler saving the ETA and the QR code before it calls the gateway
InitiateFinish_SaveFirst(bks, u, sid, pid, start, dur, loc, eta, khaltiOk) ==
  LET st == InitiateStation(sid)
      canon == InitiateCanonicalPort(st, pid)
      amount == Round(InitiatePerHour(st) * dur, 60)
      created == InitiateCreate(u, sid, canon, start, dur)
  IN IF khaltiOk
     THEN Append(bks, InitiateSave(created, Len(bks) + 1, loc, eta, amount))
     ELSE Append(bks, InitiateSave(created, 0, loc, eta, 0))

\* everything after the overlap check: commit, ETA, QR code, gateway, save
InitiateFinish(bks, u, sid, pid, start, dur, loc, eta, khaltiOk) ==
  LET st == InitiateStation(sid)
      canon == InitiateCanonicalPort(st, pid)
      amount == Round(InitiatePerHour(st) * dur, 60)
      created == InitiateCreate(u, sid, canon, start, dur)
  IN IF khaltiOk
     THEN Append(bks, InitiateSave(created, Len(bks) + 1, loc, eta, amount))
     ELSE Append(bks, created)

Initiate(u, sid, pid, start, dur, loc, eta, khaltiOk) ==
  LET st == InitiateStation(sid)
      canon == InitiateCanonicalPort(st, pid)
      early == InitiateEarly(u, sid, pid, dur)
  IN /\ Idle
     /\ req' = [Req0 EXCEPT !.op = "initiate", !.caller = u, !.stationId = sid,
                            !.portId = pid, !.startTime = start,
                            !.endTime = start + dur, !.duration = dur,
                            !.loc = loc]
     /\ users' = InitiateUser(users, u)
     /\ UNCHANGED <<ports, clock, tx>>
     /\ IF early # 0
        THEN /\ resp' = Answer(early, "early")
             /\ UNCHANGED bookings
        ELSE IF InitiateOverlapping(bookings, sid, canon, start, start + dur)
        THEN /\ resp' = Answer(409, "Time slot is not available for this port")
             /\ UNCHANGED bookings
        ELSE /\ Len(bookings) < MaxBookings
             /\ bookings' =
                  InitiateFinish(bookings, u, sid, pid, start, dur, loc, eta,
                                 khaltiOk)
             /\ resp' = IF khaltiOk
                        THEN [Answer(200, "none") EXCEPT
                                !.bookingId = Len(bookings) + 1]
                        ELSE Answer(500, "Failed to initiate payment")

\* ---------------------------------------------- POST /api/payments/verify
\* the short-circuit without confirmed
VerifySkip_NoConfirmed == {"active", "completed"}

\* statuses for which verify answers without looking at the gateway status
VerifySkip == {"confirmed", "active", "completed"}

\* Refunded left pending
VerifyOutcome_RefundPending(lookup) ==
  IF lookup = "Completed" THEN "confirmed"
  ELSE IF lookup = "User canceled" \/ lookup = "Expired" THEN "cancelled"
  ELSE IF lookup = "Partially refunded" THEN "cancelled"
  ELSE "pending"

\* every other status cancels
VerifyOutcome_OtherCancels(lookup) ==
  IF lookup = "Completed" THEN "confirmed" ELSE "cancelled"

\* gateway status -> the status verify gives a pending booking
VerifyOutcome(lookup) ==
  IF lookup = "Completed" THEN "confirmed"
  ELSE IF lookup = "User canceled" \/ lookup = "Expired" THEN "cancelled"
  ELSE IF lookup = "Refunded" \/ lookup = "Partially refunded" THEN "cancelled"
  ELSE "pending"

\* no ownership check
VerifyForbidden_Never(b, u) == FALSE

\* the booking belongs to another user
VerifyForbidden(b, u) == b.userId # u

\* The port the Station.updateOne of verify addresses: <<s, k>>, <<0, 0>>
\* when the filter matches nothing, <<-1, 0>> for the CastError of a
\* stationId that is no ObjectId.
VerifyPort(b) ==
  LET sid == String(b.stationId)
      pid == String(b.portId)
      s == FindStation(sid)
      k == IF s <= 0 THEN 0
           ELSE IF isValid(pid) THEN PortByOid(s, pid.n)
           ELSE IF \E j \in PortIdx : PortNumber(j) = pid
                THEN CHOOSE j \in PortIdx : PortNumber(j) = pid
                ELSE 0
  IN IF s = -1 THEN <<-1, 0>> ELSE IF k = 0 THEN <<0, 0>> ELSE <<s, k>>

Reserve(prts, key, id) ==
  [prts EXCEPT ![key] = [status |-> "reserved", currentBookingId |-> id]]

Verify(u, pidx, bid, lookup, updOk) ==
  LET id == FindBooking(bookings, bid)
      b == bookings[id]
      out == VerifyOutcome(lookup)
      key == VerifyPort(b)
  IN /\ Idle
     /\ req' = [Req0 EXCEPT !.op = "verify", !.caller = u, !.pidx = pidx,
                            !.bookingId = bid, !.lookup = lookup]
     /\ UNCHANGED <<clock, tx, users>>
     /\ IF u = NoUser
        THEN resp' = Answer(401, "Unauthorized") /\ UNCHANGED <<bookings, ports>>
        ELSE IF pidx = 0 \/ bid = 0
        THEN resp' = Answer(400, "required") /\ UNCHANGED <<bookings, ports>>
        ELSE IF id = 0
        THEN resp' = Answer(404, "Booking not found")
             /\ UNCHANGED <<bookings, ports>>
        ELSE IF VerifyForbidden(b, u)
        THEN resp' = Answer(403, "Forbidden") /\ UNCHANGED <<bookings, ports>>
        ELSE IF b.status \in VerifySkip
        THEN /\ resp' = [Answer(200, "none") EXCEPT !.verified = "true"]
             /\ UNCHANGED <<bookings, ports>>
        ELSE IF out = "confirmed"
        THEN /\ bookings' = [bookings EXCEPT ![id].status = "confirmed"]
             /\ IF key[1] = -1 \/ ~updOk
                THEN /\ resp' = Answer(500, "Failed to verify payment")
                     /\ UNCHANGED ports
                ELSE /\ ports' = IF key[1] = 0 THEN ports
                                 ELSE Reserve(ports, key, id)
                     /\ resp' = [Answer(200, "none") EXCEPT !.verified = "true"]
        ELSE IF out = "cancelled"
        THEN /\ bookings' = [bookings EXCEPT ![id].status = "cancelled"]
             /\ resp' = [Answer(200, "none") EXCEPT !.verified = "false"]
             /\ UNCHANGED ports
        ELSE /\ resp' = [Answer(200, "none") EXCEPT !.verified = "false"]
             /\ UNCHANGED <<bookings, ports>>

\* ------------------------------------------------ POST /api/walk-in/checkin
\* Math.max(30, Math.min(Number(estimatedDuration) || 60, 480))
CheckinDuration(est) ==
  Max(CHECKIN_MIN_MINUTES,
      Min(IF est = 0 THEN CHECKIN_DEFAULT_MINUTES ELSE est, CHECKIN_MAX_MINUTES))

CheckinCreate(s, k, now, est) ==
  LET duration == CheckinDuration(est)
  IN NewBooking("walk-in-qr", BsonStr(Hex(s)), BsonStr(Hex(PortOid(s, k))),
                now, now + duration, duration, "active", "walk-in-qr",
                Round(duration * perHour(s), 60))

Occupy(prts, key, id) ==
  [prts EXCEPT ![key] = [status |-> "occupied", currentBookingId |-> id]]

WalkInCheckin(sid, pid, named, est) ==
  LET s == FindStation(sid)
      k == FindPort(s, pid)
  IN /\ Idle
     /\ req' = [Req0 EXCEPT !.op = "checkin", !.stationId = sid, !.portId = pid,
                            !.duration = est]
     /\ UNCHANGED <<clock, tx, users>>
     /\ IF sid = NoText \/ pid = NoText \/ ~named
        THEN resp' = Answer(400, "required") /\ UNCHANGED <<bookings, ports>>
        ELSE IF s = -1
        THEN resp' = Answer(500, "Failed to check in")
             /\ UNCHANGED <<bookings, ports>>
        ELSE IF s = 0
        THEN resp' = Answer(404, "Station not found")
             /\ UNCHANGED <<bookings, ports>>
        ELSE IF k = 0
        THEN resp' = Answer(404, "Port not found")
             /\ UNCHANGED <<bookings, ports>>
        ELSE IF ports[<<s, k>>].status # "available"
        THEN resp' = Answer(409, "Port is currently not available")
             /\ UNCHANGED <<bookings, ports>>
        ELSE /\ Len(bookings) < MaxBookings
             /\ bookings' = Append(bookings, CheckinCreate(s, k, clock, est))
             /\ ports' = Occupy(ports, <<s, k>>, Len(bookings) + 1)
             /\ resp' = [Answer(201, "none") EXCEPT
                           !.bookingId = Len(bookings) + 1]

\* ------------------------------------ PATCH /api/admin/stations/[id]/ports
PatchPort(u, sid, pid, status) ==
  LET s == FindStation(sid)
      k == FindPort(s, pid)
  IN /\ Idle
     /\ req' = [Req0 EXCEPT !.op = "patch", !.caller = u, !.stationId = sid,
                            !.portId = pid, !.status = status]
     /\ UNCHANGED <<bookings, clock, tx, users>>
     /\ IF u = NoUser
        THEN resp' = Answer(401, "Unauthorized") /\ UNCHANGED ports
        ELSE IF ~IsAdminRole(u)
        THEN resp' = Answer(403, "Forbidden") /\ UNCHANGED ports
        ELSE IF s = -1
        THEN resp' = Answer(500, "Failed to update port status")
             /\ UNCHANGED ports
        ELSE IF s = 0
        THEN resp' = Answer(404, "Station not found") /\ UNCHANGED ports
        ELSE IF Role(u) # "superadmin" /\ adminId(s) # u
        THEN resp' = Answer(403, "You can only manage your own stations")
             /\ UNCHANGED ports
        ELSE IF pid = NoText \/ status = "na"
        THEN resp' = Answer(400, "required") /\ UNCHANGED ports
        ELSE IF status \notin PortStatuses
        THEN resp' = Answer(400, "Invalid status") /\ UNCHANGED ports
        ELSE IF k = 0
        THEN resp' = Answer(404, "Port not found") /\ UNCHANGED ports
        ELSE /\ ports' =
                  [ports EXCEPT
                     ![<<s, k>>] =
                       [status |-> status,
                        currentBookingId |->
                          IF status = "available" THEN 0
                          ELSE ports[<<s, k>>].currentBookingId]]
             /\ resp' = Answer(200, "none")

\* ------------------------------------------------ POST /api/admin/walk-in
\* the role check without the session check before it
AdminEarly_NoSession(u) == IF ~IsAdminRole(u) THEN 403 ELSE 0

\* auth and role check shared by the three actions: 0 when passed
AdminEarly(u) ==
  IF u = NoUser THEN 401 ELSE IF ~IsAdminRole(u) THEN 403 ELSE 0

\* the "no active walk-in already on this port" query of action "start"
StartExistingFilter(b, sid, pid) ==
  /\ b.stationId \in {BsonOid(sid.n), BsonStr(sid)}
  /\ b.portId \in (IF isValid(pid) THEN {BsonOid(pid.n), BsonStr(pid)}
                   ELSE {BsonStr(pid)})
  /\ b.source \in {"walk-in-manual", "walk-in-qr"}
  /\ b.status = "active"

StartCreate(sid, pid, now) ==
  NewBooking("walk-in", BsonOid(sid.n), ObjIdOrStr(pid), now,
             now + PLACEHOLDER_MINUTES, PLACEHOLDER_MINUTES, "active",
             "walk-in-manual", 0)

\* the non-blocking "mark port occupied": status only, and only for a portId
\* that is an ObjectId
StartMarkPort(prts, sid, pid) ==
  LET k == IF isValid(pid) THEN PortByOid(sid.n, pid.n) ELSE 0
  IN IF k = 0 THEN prts
     ELSE [prts EXCEPT ![<<sid.n, k>>].status = "occupied"]

WalkInStart(u, sid, pid) ==
  LET s == IF isValid(sid) THEN FindStation(sid) ELSE 0
  IN /\ Idle
     /\ req' = [Req0 EXCEPT !.op = "start", !.caller = u, !.stationId = sid,
                            !.portId = pid]
     /\ UNCHANGED <<clock, tx, users>>
     /\ IF AdminEarly(u) # 0
        THEN resp' = Answer(AdminEarly(u), "auth")
             /\ UNCHANGED <<bookings, ports>>
        ELSE IF sid = NoText \/ pid = NoText
        THEN resp' = Answer(400, "required") /\ UNCHANGED <<bookings, ports>>
        ELSE IF s = 0
        THEN resp' = Answer(404, "Station not found in database")
             /\ UNCHANGED <<bookings, ports>>
        ELSE IF Role(u) = "admin" /\ adminId(s) # u
        THEN resp' = Answer(403, "Not authorized for this station")
             /\ UNCHANGED <<bookings, ports>>
        ELSE IF \E i \in 1 .. Len(bookings) :
                  StartExistingFilter(bookings[i], sid, pid)
        THEN resp' = Answer(409, "already has an active walk-in session")
             /\ UNCHANGED <<bookings, ports>>
        ELSE /\ Len(bookings) < MaxBookings
             /\ bookings' = Append(bookings, StartCreate(sid, pid, clock))
             /\ ports' = StartMarkPort(ports, sid, pid)
             /\ resp' = [Answer(201, "none") EXCEPT
                           !.bookingId = Len(bookings) + 1]

\* the station of a booking as action "stop" looks it up: 0 when none
StopStation(b) ==
  LET sid == String(b.stationId)
  IN IF isValid(sid) /\ FindStation(sid) > 0 THEN sid.n ELSE 0

\* station?.pricing?.perHour || 200
StopPerHour(s) ==
  IF s = 0 \/ perHour(s) = 0 THEN DEFAULT_HOURLY_RATE_NPR ELSE perHour(s)

StopComplete(b, now) ==
  [b EXCEPT !.endTime = now,
            !.estimatedDuration = Max(1, Round(now - b.startTime, 1)),
            !.amountPaid =
              Round((now - b.startTime) * StopPerHour(StopStation(b)), 60),
            !.status = "completed"]

\* any booking that exists
StopFound_AnyStatus(bks, bid) == FindBooking(bks, bid) # 0

\* Booking.findById found a booking and its status is active
StopFound(bks, bid) ==
  FindBooking(bks, bid) # 0 /\ bks[FindBooking(bks, bid)].status = "active"

\* no ownership check
StopForbidden_Never(u, b) == FALSE

\* a regular admin, and the booking's station is not theirs
StopForbidden(u, b) ==
  Role(u) = "admin" /\ (StopStation(b) = 0 \/ adminId(StopStation(b)) # u)

\* the non-blocking "free the port": status only, currentBookingId kept
StopFreePort(prts, b) ==
  LET sid == String(b.stationId)
      pid == String(b.portId)
      k == IF isValid(sid) /\ isValid(pid) THEN PortByOid(sid.n, pid.n) ELSE 0
  IN IF k = 0 THEN prts
     ELSE [prts EXCEPT ![<<sid.n, k>>].status = "available"]

WalkInStop(u, bid) ==
  LET id == FindBooking(bookings, bid)
      b == bookings[id]
  IN /\ Idle
     /\ req' = [Req0 EXCEPT !.op = "stop", !.caller = u, !.bookingId = bid]
     /\ UNCHANGED <<clock, tx, users>>
     /\ IF AdminEarly(u) # 0
        THEN resp' = Answer(AdminEarly(u), "auth")
             /\ UNCHANGED <<bookings, ports>>
        ELSE IF bid = 0
        THEN resp' = Answer(400, "Booking ID is required")
             /\ UNCHANGED <<bookings, ports>>
        ELSE IF ~StopFound(bookings, bid)
        THEN resp' = Answer(404, "Active walk-in session not found")
             /\ UNCHANGED <<bookings, ports>>
        ELSE IF StopForbidden(u, b)
        THEN resp' = Answer(403, "Not authorized")
             /\ UNCHANGED <<bookings, ports>>
        ELSE /\ bookings' = [bookings EXCEPT ![id] = StopComplete(b, clock)]
             /\ ports' = StopFreePort(ports, b)
             /\ resp' = [Answer(200, "none") EXCEPT !.bookingId = id]

LogCreate(sid, pid, start, end, paid) ==
  NewBooking("walk-in", BsonStr(sid), BsonStr(pid), start, end,
             Max(1, Round(end - start, 1)), "completed", "walk-in-manual",
             paid)

WalkInLog(u, sid, pid, given, start, end, paid) ==
  LET s == FindStation(sid)
  IN /\ Idle
     /\ req' = [Req0 EXCEPT !.op = "log", !.caller = u, !.stationId = sid,
                            !.portId = pid, !.startTime = start,
                            !.endTime = end]
     /\ UNCHANGED <<ports, clock, tx, users>>
     /\ IF AdminEarly(u) # 0
        THEN resp' = Answer(AdminEarly(u), "auth") /\ UNCHANGED bookings
        ELSE IF sid = NoText \/ pid = NoText \/ ~given
        THEN resp' = Answer(400, "required") /\ UNCHANGED bookings
        ELSE IF Role(u) = "admin" /\ s = -1
        THEN resp' = Answer(500, "Failed to process walk-in session")
             /\ UNCHANGED bookings
        ELSE IF Role(u) = "admin" /\ (s = 0 \/ adminId(s) # u)
        THEN resp' = Answer(403, "Station not found or not authorized")
             /\ UNCHANGED bookings
        ELSE /\ Len(bookings) < MaxBookings
             /\ bookings' = Append(bookings, LogCreate(sid, pid, start, end, paid))
             /\ resp' = [Answer(201, "none") EXCEPT
                           !.bookingId = Len(bookings) + 1]

\* ------------------------------------ POST /api/bookings/[id]/refresh-eta
\* no ownership check
RefreshForbidden_Never(u, b) == FALSE

\* the booking is another user's and the caller is no admin
RefreshForbidden(u, b) == b.userId # u /\ ~IsAdminRole(u)

RefreshEta(u, bid, loc, coordsOk, eta) ==
  LET id == FindBooking(bookings, bid)
      b == bookings[id]
  IN /\ Idle
     /\ req' = [Req0 EXCEPT !.op = "refresh", !.caller = u, !.bookingId = bid,
                            !.loc = loc]
     /\ UNCHANGED <<ports, clock, tx, users>>
     /\ IF u = NoUser
        THEN resp' = Answer(401, "Unauthorized") /\ UNCHANGED bookings
        ELSE IF loc = 0
        THEN resp' = Answer(400, "User location is required")
             /\ UNCHANGED bookings
        ELSE IF id = 0
        THEN resp' = Answer(404, "Booking not found") /\ UNCHANGED bookings
        ELSE IF RefreshForbidden(u, b)
        THEN resp' = Answer(403, "Forbidden") /\ UNCHANGED bookings
        ELSE IF ~coordsOk
        THEN resp' = Answer(400, "Could not find station location")
             /\ UNCHANGED bookings
        ELSE IF eta = 0
        THEN resp' = Answer(500, "Failed to calculate ETA")
             /\ UNCHANGED bookings
        ELSE /\ bookings' =
                  [bookings EXCEPT ![id].userLocation = loc, ![id].eta = eta]
             /\ resp' = [Answer(200, "none") EXCEPT !.bookingId = id]

\* ------------------------------------------------------ response, clock
\* return NextResponse.json(...): the request is answered
Respond ==
  /\ ~Idle
  /\ req' = Req0
  /\ resp' = Resp0
  /\ UNCHANGED <<bookings, ports, clock, tx, users>>

\* new Date() reads a later time
Tick ==
  /\ Idle
  /\ clock + SlotMinutes <= MaxSlots * SlotMinutes
  /\ clock' = clock + SlotMinutes
  /\ UNCHANGED <<bookings, ports, req, resp, tx, users>>

\* ------------------------------------------------------------- the inputs
StationTexts == {Hex(s) : s \in DbStations}
PortHexTexts == {Hex(PortOid(p[1], p[2])) : p \in PortKeys}
PortNumberTexts == {PortNumber(k) : k \in PortIdx}
\* the 24-hex text of an ObjectId no document has
StrangeHex == Hex(99)
StartTimes == {n * SlotMinutes : n \in 0 .. HorizonSlots - 1}
Durations == {SlotMinutes, 2 * SlotMinutes}
Customers == {"u1", "u2"}
Admins == {"a1", "a2", "sa"}
BookingIds == 1 .. MaxBookings

\* well-formed requests, and one request for each early answer
InitiateInputs ==
  {<<u, sid, pid, start, dur>> \in
     {"u1"} \X StationTexts \X PortHexTexts \X StartTimes \X Durations :
     start + dur <= HorizonSlots * SlotMinutes}
  \cup {<<NoUser, Hex(1), Hex(PortOid(1, 1)), 0, SlotMinutes>>,
        <<"u1", StrangeHex, Hex(PortOid(1, 1)), 0, SlotMinutes>>,
        <<"u1", FileId(1), PortNumber(1), 0, SlotMinutes>>,
        <<"u1", PortNumber(1), Hex(PortOid(1, 1)), 0, SlotMinutes>>,
        <<"u1", Hex(1), PortNumber(1), 0, SlotMinutes>>,
        <<"u1", Hex(1), NoText, 0, SlotMinutes>>,
        <<"u1", Hex(1), Hex(PortOid(1, 1)), 0, 0>>}

VerifyInputs ==
  (Customers \X {1} \X BookingIds)
  \cup {<<NoUser, 1, 1>>, <<"u1", 0, 1>>, <<"u1", 1, 0>>}

VerifyInputsAnyPidx ==
  (Customers \X BookingIds \X BookingIds)
  \cup {<<NoUser, 1, 1>>, <<"u1", 0, 1>>, <<"u1", 1, 0>>}

CheckinInputs ==
  (StationTexts \X (PortHexTexts \cup PortNumberTexts) \X {TRUE} \X {0, 30})
  \cup {<<StrangeHex, PortNumber(1), TRUE, 0>>,
        <<PortNumber(1), PortNumber(1), TRUE, 0>>,
        <<Hex(1), StrangeHex, TRUE, 0>>,
        <<Hex(1), PortNumber(1), FALSE, 0>>,
        <<Hex(1), NoText, TRUE, 0>>}

PatchInputs ==
  (Admins \X StationTexts \X {Hex(PortOid(1, 1)), PortNumber(2)}
     \X PortStatuses)
  \cup {<<NoUser, Hex(1), PortNumber(1), "available">>,
        <<"u1", Hex(1), PortNumber(1), "available">>,
        <<"sa", StrangeHex, PortNumber(1), "available">>,
        <<"sa", PortNumber(1), PortNumber(1), "available">>,
        <<"sa", Hex(1), NoText, "available">>,
        <<"sa", Hex(1), PortNumber(1), "disabled">>,
        <<"sa", Hex(1), StrangeHex, "available">>}

StartInputs ==
  (Admins \X StationTexts \X (PortHexTexts \cup {PortNumber(1), StrangeHex}))
  \cup {<<NoUser, Hex(1), PortNumber(1)>>,
        <<"u1", Hex(1), PortNumber(1)>>,
        <<"sa", StrangeHex, PortNumber(1)>>,
        <<"sa", PortNumber(1), PortNumber(1)>>,
        <<"sa", Hex(1), NoText>>}

StopInputs ==
  (Admins \X BookingIds) \cup {<<NoUser, 1>>, <<"u1", 1>>, <<"sa", 0>>}

LogInputs ==
  ({"a1", "sa"} \X StationTexts \X {PortNumber(1)} \X {TRUE}
     \X {<<0, SlotMinutes>>, <<SlotMinutes, 0>>})
  \cup {<<NoUser, Hex(1), PortNumber(1), TRUE, <<0, SlotMinutes>>>>,
        <<"u1", Hex(1), PortNumber(1), TRUE, <<0, SlotMinutes>>>>,
        <<"a2", Hex(1), PortNumber(1), TRUE, <<0, SlotMinutes>>>>,
        <<"a1", PortNumber(1), PortNumber(1), TRUE, <<0, SlotMinutes>>>>,
        <<"sa", Hex(1), PortNumber(1), FALSE, <<0, SlotMinutes>>>>}

RefreshInputs ==
  ((Customers \cup {"a2"}) \X BookingIds \X {1})
  \cup {<<NoUser, 1, 1>>, <<"u1", 1, 0>>}

NextInitiate ==
  \E i \in InitiateInputs :
    Initiate(i[1], i[2], i[3], i[4], i[5], 0, 0, TRUE)

NextInitiateEta ==
  \E i \in InitiateInputs, loc \in {0, 1}, eta \in {0, 1}, khaltiOk \in BOOLEAN :
    /\ loc = 0 => eta = 0
    /\ Initiate(i[1], i[2], i[3], i[4], i[5], loc, eta, khaltiOk)

NextVerify ==
  \E i \in VerifyInputs, lookup \in GatewayStatuses, updOk \in BOOLEAN :
    Verify(i[1], i[2], i[3], lookup, updOk)

NextCheckin == \E i \in CheckinInputs : WalkInCheckin(i[1], i[2], i[3], i[4])

NextPatch == \E i \in PatchInputs : PatchPort(i[1], i[2], i[3], i[4])

NextStart == \E i \in StartInputs : WalkInStart(i[1], i[2], i[3])

NextStop == \E i \in StopInputs : WalkInStop(i[1], i[2])

NextLog ==
  \E i \in LogInputs : WalkInLog(i[1], i[2], i[3], i[4], i[5][1], i[5][2], 0)

NextRefresh ==
  \E i \in RefreshInputs, coordsOk \in BOOLEAN, eta \in {0, 1} :
    RefreshEta(i[1], i[2], i[3], coordsOk, eta)

\* ---------------------------------- payments/initiate, step by step
\* The handler's transaction as MongoDB runs it: the overlap query reads the
\* snapshot the transaction starts with; the insert of a new document
\* conflicts with no other write, so the commit succeeds.
Procs == {1, 2}
TxIdle ==
  [pc |-> "idle", caller |-> NoUser, stationId |-> NoText, portId |-> NoText,
   startTime |-> 0, duration |-> 0, overlapping |-> FALSE, status |-> 0]

\* ------------------------------------------------------------- the system
Init ==
  /\ bookings = <<>>
  /\ ports = [p \in PortKeys |-> [status |-> "available", currentBookingId |-> 0]]
  /\ clock = 0
  /\ req = Req0
  /\ resp = Resp0
  /\ tx = [p \in Procs |-> TxIdle]
  /\ users = SeededUsers

\* session.startTransaction() and the Booking.findOne of the overlap check
TxCheck(p, u, sid, pid, start, dur) ==
  /\ tx[p].pc = "idle"
  /\ InitiateEarly(u, sid, pid, dur) = 0
  /\ tx' = [tx EXCEPT
              ![p] = [pc |-> "checked", caller |-> u, stationId |-> sid,
                      portId |-> pid, startTime |-> start, duration |-> dur,
                      overlapping |->
                        InitiateOverlapping(
                          bookings, sid,
                          InitiateCanonicalPort(InitiateStation(sid), pid),
                          start, start + dur),
                      status |-> 0]]
  /\ users' = InitiateUser(users, u)
  /\ UNCHANGED <<bookings, ports, clock, req, resp>>

\* abortTransaction and 409, or Booking.create, commitTransaction and the
\* rest of the handler
TxCommit(p) ==
  LET t == tx[p]
  IN /\ t.pc = "checked"
     /\ IF t.overlapping
        THEN /\ tx' = [tx EXCEPT ![p].pc = "done", ![p].status = 409]
             /\ UNCHANGED bookings
        ELSE /\ Len(bookings) < MaxBookings
             /\ bookings' =
                  InitiateFinish(bookings, t.caller, t.stationId, t.portId,
                                 t.startTime, t.duration, 0, 0, TRUE)
             /\ tx' = [tx EXCEPT ![p].pc = "done", ![p].status = 200]
     /\ UNCHANGED <<ports, clock, req, resp, users>>

\* the response is sent
TxReturn(p) ==
  /\ tx[p].pc = "done"
  /\ tx' = [tx EXCEPT ![p] = TxIdle]
  /\ UNCHANGED <<bookings, ports, clock, req, resp, users>>

NextTxCheck ==
  \E p \in Procs, i \in InitiateInputs : TxCheck(p, i[1], i[2], i[3], i[4], i[5])

NextTxCommit == \E p \in Procs : TxCommit(p)

NextTxReturn == \E p \in Procs : TxReturn(p)

Next ==
  \/ NextInitiate
  \/ NextVerify
  \/ NextCheckin
  \/ NextStart
  \/ NextStop
  \/ NextLog
  \/ Respond
  \/ Tick

\* requests handled one after the other
Spec == Init /\ [][Next]_vars

NextConc ==
  \/ NextTxCheck
  \/ NextTxCommit
  \/ NextTxReturn

\* payments/initiate requests handled concurrently
SpecConc == Init /\ [][NextConc]_vars

\* ------------------------------------------------- the walk-in handlers
\* new Date() reads an earlier time than a request before it did: the system
\* clock was set back, or the request runs on an instance whose clock is
\* behind
ClockBack ==
  /\ Idle
  /\ clock >= SlotMinutes
  /\ clock' = clock - SlotMinutes
  /\ UNCHANGED <<bookings, ports, req, resp, tx, users>>

NextWalkIn ==
  \/ NextCheckin
  \/ NextStart
  \/ NextStop
  \/ Respond
  \/ Tick

\* walk-in check-in, start and stop requests, one after the other
SpecWalkIn == Init /\ [][NextWalkIn]_vars

NextSkew ==
  \/ NextCheckin
  \/ NextStart
  \/ NextStop
  \/ Respond
  \/ Tick
  \/ ClockBack

\* the same requests under a wall clock that is not monotonic
SpecSkew == Init /\ [][NextSkew]_vars

\* ------------------------------------- walk-in starts, step by step
\* A walk-in start as the server interleaves it with another: the handler
\* reads (the station document of the check-in, the Booking.findOne of
\* action "start"), and writes later on the strength of what it read.
WkRequest(op, u, sid, pid, est, blocked) ==
  [pc |-> "checked", op |-> op, caller |-> u, stationId |-> sid,
   portId |-> pid, startTime |-> 0, duration |-> est,
   overlapping |-> blocked, status |-> 0]

\* the check of the handler, made at the write
WkBlocked_AtWrite(t) ==
  IF t.op = "checkin"
  THEN ports[<<FindStation(t.stationId),
               FindPort(FindStation(t.stationId), t.portId)>>].status
         # "available"
  ELSE \E i \in 1 .. Len(bookings) :
         StartExistingFilter(bookings[i], t.stationId, t.portId)

\* the handler answers 409 when its own read found the port taken
WkBlocked(t) == t.overlapping

\* check-in: Station.findById, the port and its status
WkCheckinRead(p, sid, pid, est) ==
  LET s == FindStation(sid)
      k == FindPort(s, pid)
  IN /\ tx[p].pc = "idle"
     /\ s > 0
     /\ k # 0
     /\ tx' = [tx EXCEPT
                 ![p] = WkRequest("checkin", NoUser, sid, pid, est,
                                  ports[<<s, k>>].status # "available")]
     /\ UNCHANGED <<bookings, ports, clock, req, resp, users>>

\* action "start": the station, the ownership and the Booking.findOne for an
\* active walk-in on the port
WkStartRead(p, u, sid, pid) ==
  /\ tx[p].pc = "idle"
  /\ AdminEarly(u) = 0
  /\ pid # NoText
  /\ isValid(sid)
  /\ FindStation(sid) > 0
  /\ ~(Role(u) = "admin" /\ adminId(FindStation(sid)) # u)
  /\ tx' = [tx EXCEPT
              ![p] = WkRequest("start", u, sid, pid, 0,
                               \E i \in 1 .. Len(bookings) :
                                 StartExistingFilter(bookings[i], sid, pid))]
  /\ UNCHANGED <<bookings, ports, clock, req, resp, users>>

\* 409, or Booking.create and the Station.updateOne that marks the port
WkWrite(p) ==
  LET t == tx[p]
      s == FindStation(t.stationId)
      k == FindPort(s, t.portId)
  IN /\ t.pc = "checked"
     /\ "op" \in DOMAIN t
     /\ IF WkBlocked(t)
        THEN /\ tx' = [tx EXCEPT ![p].pc = "done", ![p].status = 409]
             /\ UNCHANGED <<bookings, ports>>
        ELSE /\ Len(bookings) < MaxBookings
             /\ bookings' =
                  Append(bookings,
                         IF t.op = "checkin"
                         THEN CheckinCreate(s, k, clock, t.duration)
                         ELSE StartCreate(t.stationId, t.portId, clock))
             /\ ports' = IF t.op = "checkin"
                         THEN Occupy(ports, <<s, k>>, Len(bookings) + 1)
                         ELSE StartMarkPort(ports, t.stationId, t.portId)
             /\ tx' = [tx EXCEPT ![p].pc = "done", ![p].status = 201]
     /\ UNCHANGED <<clock, req, resp, users>>

NextWkCheckinRead ==
  \E p \in Procs, sid \in StationTexts,
     pid \in PortHexTexts \cup PortNumberTexts :
    WkCheckinRead(p, sid, pid, 0)

NextWkStartRead ==
  \E p \in Procs, u \in Admins, sid \in StationTexts,
     pid \in PortHexTexts \cup PortNumberTexts :
    WkStartRead(p, u, sid, pid)

NextWkWrite == \E p \in Procs : WkWrite(p)

NextWalkConc ==
  \/ NextWkCheckinRead
  \/ NextWkStartRead
  \/ NextWkWrite
  \/ NextTxReturn

\* walk-in starts handled concurrently
SpecWalkConc == Init /\ [][NextWalkConc]_vars

\* ------------------------------------------------- the payment handlers
NextVerifyPay ==
  \E i \in VerifyInputsAnyPidx, lookup \in GatewayStatuses :
    Verify(i[1], i[2], i[3], lookup, TRUE)

NextPay ==
  \/ NextInitiateEta
  \/ NextVerifyPay
  \/ NextRefresh
  \/ Respond

\* initiate with a gateway that can fail, verify with any payment reference,
\* refresh-eta
SpecPay == Init /\ [][NextPay]_vars

\* --------------------------------------------------------- every route
NextRoutes ==
  /\ \/ NextInitiateEta
     \/ NextVerifyPay
     \/ NextCheckin
     \/ NextPatch
     \/ NextStart
     \/ NextStop
     \/ NextLog
     \/ NextRefresh
     \/ Respond
  /\ Len(bookings') <= MaxRouteBookings

\* every route handler, requests one after the other
SpecRoutes == Init /\ [][NextRoutes]_vars

\* ------------------------------------------------------ haversineDistance
\* Numbers are fixed-point: a real x is the integer nearest to x * FixedPoint.
\* Rounding is to nearest and the same for x and -x, as in IEEE-754.
FixedPoint == 1000
\* Earth radius in km
R == 6371
\* Math.PI / 4 and Math.PI / 2 in fixed point
QuarterPi == 785
HalfPi == 1571
\* the value of an expression that has no number: Math.sqrt of a negative
NaN == -1

Abs(x) == IF x < 0 THEN -x ELSE x
Sign(x) == IF x < 0 THEN -1 ELSE 1

\* p / q rounded to nearest, q > 0
FDiv(p, q) == Sign(p) * ((2 * Abs(p) + q) \div (2 * q))

\* x * y of two fixed-point numbers
FMul(x, y) == FDiv(x * y, FixedPoint)

\* Math.sin of an angle of h half-degrees, 0 <= h <= 360
SinPos(h) == FDiv(FixedPoint * 4 * h * (360 - h), 162000 - h * (360 - h))

\* Math.sin(((d * Math.PI) / 180) / 2) for d degrees, -360 <= d <= 360: odd
SinHalf(d) == IF d < 0 THEN -SinPos(-d) ELSE SinPos(d)

\* Math.cos((lat * Math.PI) / 180) for -90 <= lat <= 90
Cos(lat) == SinPos(2 * (90 - Abs(lat)))

\* Math.sqrt of a fixed-point number
Sqrt(x) ==
  IF x < 0 THEN NaN
  ELSE CHOOSE r \in 0 .. 2 * FixedPoint :
         r * r <= x * FixedPoint /\ x * FixedPoint < (r + 1) * (r + 1)

\* Math.atan of z in [0, 1]
Atan01(z) ==
  FMul(z, QuarterPi) + FDiv(273 * z * (FixedPoint - z), FixedPoint * FixedPoint)

\* Math.atan2(y, x) for y >= 0 and x >= 0; NaN when an argument is NaN
Atan2(y, x) ==
  IF y = NaN \/ x = NaN THEN NaN
  ELSE IF x = 0 THEN (IF y = 0 THEN 0 ELSE HalfPi)
  ELSE IF y <= x THEN Atan01(FDiv(y * FixedPoint, x))
  ELSE HalfPi - Atan01(FDiv(x * FixedPoint, y))

\* the haversine term a of the two points
HaversineA(lat1, lng1, lat2, lng2) ==
  FMul(SinHalf(lat2 - lat1), SinHalf(lat2 - lat1))
  + FMul(FMul(FMul(Cos(lat1), Cos(lat2)), SinHalf(lng2 - lng1)),
         SinHalf(lng2 - lng1))

\* the product taken with the first latitude twice
haversineDistance_FirstLatitude(lat1, lng1, lat2, lng2) ==
  LET a == FMul(SinHalf(lat2 - lat1), SinHalf(lat2 - lat1))
           + FMul(FMul(FMul(Cos(lat1), Cos(lat1)), SinHalf(lng2 - lng1)),
                  SinHalf(lng2 - lng1))
      c == Atan2(Sqrt(a), Sqrt(FixedPoint - a))
  IN IF c = NaN THEN NaN ELSE FDiv(R * 2 * c, FixedPoint)

\* km between two points given in degrees
haversineDistance(lat1, lng1, lat2, lng2) ==
  LET a == HaversineA(lat1, lng1, lat2, lng2)
      c == Atan2(Sqrt(a), Sqrt(FixedPoint - a))
  IN IF c = NaN THEN NaN ELSE FDiv(R * 2 * c, FixedPoint)

\* the coordinates the calls are made with, in degrees
Lats == {-90, -30, 0, 30, 60}
Lngs == {-120, 0, 60, 180}

HaversineCall(lat1, lng1, lat2, lng2) ==
  [Req0 EXCEPT !.op = "haversine", !.loc = <<lat1, lng1, lat2, lng2>>]

InitGeo ==
  /\ bookings = <<>>
  /\ ports = [p \in PortKeys |-> [status |-> "available", currentBookingId |-> 0]]
  /\ clock = 0
  /\ req \in {HaversineCall(lat1, lng1, lat2, lng2) :
               lat1 \in Lats, lng1 \in Lngs, lat2 \in Lats, lng2 \in Lngs}
  /\ resp = Resp0
  /\ tx = [p \in Procs |-> TxIdle]
  /\ users = SeededUsers

\* the call returns
HaversineReturn ==
  /\ req.op = "haversine"
  /\ resp = Resp0
  /\ resp' = [op |-> "haversine",
              km |-> haversineDistance(req.loc[1], req.loc[2], req.loc[3],
                                       req.loc[4])]
  /\ UNCHANGED <<bookings, ports, clock, req, tx, users>>

NextGeo == HaversineReturn

\* calls of haversineDistance
SpecGeo == InitGeo /\ [][NextGeo]_vars

\* ------------------------------------------- the lifecycle of a booking
\* PATCH /api/bookings/[id] {status: "active"}, the manual admin action of
\* the lifecycle: an admin marks a confirmed booking active when its session
\* begins. The only statement about it is the lifecycle of the
\* specification; ports are left as they are.
BookingActivate(u, bid) ==
  LET id == FindBooking(bookings, bid)
  IN /\ Idle
     /\ req' = [Req0 EXCEPT !.op = "activate", !.caller = u, !.bookingId = bid]
     /\ UNCHANGED <<ports, clock, tx, users>>
     /\ IF AdminEarly(u) # 0
        THEN resp' = Answer(AdminEarly(u), "auth")
             /\ UNCHANGED bookings
        ELSE IF id = 0
        THEN resp' = Answer(404, "Booking not found")
             /\ UNCHANGED bookings
        ELSE IF bookings[id].status # "confirmed"
        THEN resp' = Answer(400, "Invalid status transition")
             /\ UNCHANGED bookings
        ELSE /\ bookings' = [bookings EXCEPT ![id].status = "active"]
             /\ resp' = [Answer(200, "none") EXCEPT !.bookingId = id]

NextActivate ==
  \E i \in ({"sa"} \X BookingIds) \cup {<<"u1", 1>>} :
    BookingActivate(i[1], i[2])

NextLifecycle ==
  NextInitiate \/ NextVerify \/ NextActivate \/ NextStop \/ Respond \/ Tick

\* online bookings from initiate to the end of their session
SpecLifecycle == Init /\ [][NextLifecycle]_vars

\* ------------------------------------------- durations of stored bookings
MINUTES_PER_DAY == 1440
MIN_BOOKING_DURATION_MINUTES == 1
MAX_BOOKING_DURATION_MINUTES == MINUTES_PER_DAY

\* estimatedDuration values of initiate requests that are numbers and not 0
NumericDurations == {-SlotMinutes, SlotMinutes, MINUTES_PER_DAY + SlotMinutes}

NextInitiateNumeric ==
  \E start \in {SlotMinutes, 2 * SlotMinutes}, dur \in NumericDurations,
     khaltiOk \in BOOLEAN :
    Initiate("u1", Hex(1), Hex(PortOid(1, 1)), start, dur, 0, 0, khaltiOk)

NextDurations == NextInitiateNumeric \/ NextLog \/ Respond

\* initiate with any numeric duration, and the admin log
SpecDurations == Init /\ [][NextDurations]_vars

\* ------------------------------------------------------- the booking form
\* The durations the form offers, minutes.
DURATION_OPTIONS == {30, 60, 90, 120, 180, 240}

\* "HH:MM".split(":").map(Number), as minutes of the day; an "HH:MM" text
\* is the pair <<HH, MM>>
HoursMinutes(hm) == hm[1] * 60 + hm[2]

\* new Date(`${selectedDate}T${selectedTime}`).getTime(), in minutes; the
\* dates are "d1" and "d2", consecutive days
DateTime(selectedDate, selectedTime) ==
  IF selectedDate \in {"d1", "d2"} /\ Len(selectedTime) = 2
  THEN (IF selectedDate = "d1" THEN 1 ELSE 2) * 24 * 60
         + HoursMinutes(selectedTime)
  ELSE NaN

\* Date.getHours() and Date.getMinutes() of an instant in minutes
getHours(t) == (t % (24 * 60)) \div 60
getMinutes(t) == t % 60

\* the operating-hours test of the form: TRUE when the submission is blocked
OutsideHours(operatingHours, bookingTime, selectedDuration) ==
  LET bookingMinutes == getHours(bookingTime) * 60 + getMinutes(bookingTime)
      endTime == bookingTime + selectedDuration
      endMinutes == getHours(endTime) * 60 + getMinutes(endTime)
      openMinutes == HoursMinutes(operatingHours[1])
      closeMinutes == HoursMinutes(operatingHours[2])
  IN bookingMinutes < openMinutes \/ endMinutes > closeMinutes

\* the error handleSubmit sets before it sends anything; "none" when it
\* goes on to check availability and initiate the payment
handleSubmit(f) ==
  LET bookingTime == DateTime(f.selectedDate, f.selectedTime)
  IN IF f.selectedDate = "" \/ f.selectedTime = <<>> \/ f.selectedPortId = ""
     THEN "Please fill in all required fields."
     ELSE IF bookingTime = NaN
     THEN "Invalid date or time selected."
     ELSE IF bookingTime <= f.now
     THEN "Booking time must be in the future."
     ELSE IF /\ f.operatingHours # <<>>
             /\ OutsideHours(f.operatingHours, bookingTime, f.selectedDuration)
     THEN "Your booking must start and end within these hours."
     ELSE "none"

\* what the form is submitted with; operatingHours is <<open, close>>, or
\* <<>> for a station without operating hours
FormDates == {"", "bad", "d1", "d2"}
FormTimes == {<<>>, <<5, 0>>, <<8, 30>>, <<17, 30>>, <<22, 30>>, <<23, 45>>}
FormHours ==
  {<<>>, <<<<0, 0>>, <<23, 59>>>>, <<<<6, 0>>, <<23, 0>>>>,
   <<<<8, 30>>, <<18, 0>>>>}
FormPorts == {"", "p1"}

FormSubmission(d, t, dur, p, h) ==
  [op |-> "submit", selectedDate |-> d, selectedTime |-> t,
   selectedDuration |-> dur, selectedPortId |-> p, operatingHours |-> h,
   now |-> DateTime("d1", <<7, 0>>)]

InitForm ==
  /\ bookings = <<>>
  /\ ports = [p \in PortKeys |-> [status |-> "available", currentBookingId |-> 0]]
  /\ clock = 0
  /\ req \in {FormSubmission(d, t, dur, p, h) :
               d \in FormDates, t \in FormTimes, dur \in DURATION_OPTIONS,
               p \in FormPorts, h \in FormHours}
  /\ resp = Resp0
  /\ tx = [p \in Procs |-> TxIdle]
  /\ users = SeededUsers

\* the submit handler runs up to its first request
FormSubmit ==
  /\ req.op = "submit"
  /\ resp = Resp0
  /\ resp' = [op |-> "submit", error |-> handleSubmit(req),
              submitting |-> handleSubmit(req) = "none"]
  /\ UNCHANGED <<bookings, ports, clock, req, tx, users>>

NextForm == FormSubmit

\* submissions of the booking form
SpecForm == InitForm /\ [][NextForm]_vars

\* ------------------------------------------------- vocabulary of the claims
\* the index of the port a station text and a port text name (by _id or by
\* portNumber); 0 when the station has no such port
PortIndexOf(sid, pid) ==
  IF isValid(sid) /\ sid.n \in DbStations THEN FindPort(sid.n, pid) ELSE 0

\* the physical port a booking refers to
BookingPort(b) ==
  <<String(b.stationId), PortIndexOf(String(b.stationId), String(b.portId))>>

\* the physical port a request names
ReqPort(r) == <<r.stationId, PortIndexOf(r.stationId, r.portId)>>

\* half-open intervals [s1, e1) and [s2, e2) overlap
Overlap(s1, e1, s2, e2) == s1 < e2 /\ e1 > s2

\* an initiate request that reaches the overlap check
InitiateReaches(r) ==
  /\ r.op = "initiate"
  /\ InitiateEarly(r.caller, r.stationId, r.portId, r.duration) = 0

\* the request's interval overlaps a live booking on the port it names
OverlapsLive(bks, r) ==
  \E i \in 1 .. Len(bks) :
    /\ bks[i].status \in Live
    /\ BookingPort(bks[i]) = ReqPort(r)
    /\ Overlap(bks[i].startTime, bks[i].endTime, r.startTime, r.endTime)

LastBooking(bks) == bks[Len(bks)]

\* a verify request by the owner of an existing booking whose status is st
VerifyOf(r, bks, st) ==
  /\ r.op = "verify"
  /\ r.pidx # 0
  /\ r.bookingId \in 1 .. Len(bks)
  /\ bks[r.bookingId].userId = r.caller
  /\ bks[r.bookingId].status = st

\* ------------------------------------------------------------------ claims
\* C1: an initiate request whose interval overlaps a pending, confirmed or
\* active booking on the same station and port is answered 409 and stores no
\* booking.
C1_OverlapRejected ==
  [][(InitiateReaches(req') /\ OverlapsLive(bookings, req'))
       => (resp'.status = 409 /\ bookings' = bookings)]_vars

\* C2: an initiate request whose half-open interval overlaps no live booking
\* on its port (touching ends included) passes the overlap check and stores a
\* pending booking for that port and interval.
C2_NonOverlapAccepted ==
  [][(InitiateReaches(req') /\ ~OverlapsLive(bookings, req'))
       => /\ resp'.status # 409
          /\ Len(bookings') = Len(bookings) + 1
          /\ SubSeq(bookings', 1, Len(bookings)) = bookings
          /\ LastBooking(bookings').status = "pending"
          /\ LastBooking(bookings').startTime = req'.startTime
          /\ LastBooking(bookings').endTime = req'.endTime
          /\ BookingPort(LastBooking(bookings')) = ReqPort(req')]_vars

\* an accepted request that starts exactly when a pending booking on the
\* same port ends
C2_Witness ==
  /\ req.op = "initiate"
  /\ resp.status = 200
  /\ Len(bookings) >= 2
  /\ \E i \in 1 .. Len(bookings) - 1 :
       /\ bookings[i].status = "pending"
       /\ BookingPort(bookings[i]) = ReqPort(req)
       /\ bookings[i].endTime = req.startTime
  /\ LastBooking(bookings).status = "pending"
  /\ LastBooking(bookings).startTime = req.startTime

\* C3: of two concurrent initiate requests for overlapping intervals on the
\* same port at most one commits a booking; the other is rejected.
C3_AtMostOneCommits ==
  \A p \in Procs, q \in Procs :
    (/\ p # q
     /\ tx[p].pc = "done"
     /\ tx[q].pc = "done"
     /\ tx[p].stationId = tx[q].stationId
     /\ tx[p].portId = tx[q].portId
     /\ Overlap(tx[p].startTime, tx[p].startTime + tx[p].duration,
                tx[q].startTime, tx[q].startTime + tx[q].duration))
      => ~(tx[p].status = 200 /\ tx[q].status = 200)

\* C4: a verify call for a booking that is already confirmed changes neither
\* the bookings nor the ports and answers verified: true, whatever the
\* gateway reports.
C4_VerifyIdempotent ==
  [][VerifyOf(req', bookings, "confirmed")
       => /\ bookings' = bookings
          /\ ports' = ports
          /\ resp'.status = 200
          /\ resp'.verified = "true"]_vars

\* a verify of a confirmed booking for which the gateway no longer reports
\* Completed
C4_Witness ==
  /\ req.op = "verify"
  /\ req.lookup = "User canceled"
  /\ req.bookingId \in 1 .. Len(bookings)
  /\ bookings[req.bookingId].status = "confirmed"
  /\ resp.verified = "true"

\* C5: a verify that finds Completed for a pending booking leaves the booking
\* confirmed and its port reserved with currentBookingId the booking; no
\* outcome has the booking confirmed and the port not reserved for it.
C5_ConfirmedPortReserved ==
  [][(VerifyOf(req', bookings, "pending") /\ req'.lookup = "Completed")
       => LET id == req'.bookingId
              key == <<String(bookings[id].stationId).n,
                       BookingPort(bookings[id])[2]>>
          IN /\ bookings'[id].status = "confirmed"
             /\ key \in PortKeys
             /\ ports'[key] = [status |-> "reserved", currentBookingId |-> id]]_vars

\* C6: a verify that finds User canceled, Expired or Refunded for a pending
\* booking cancels the booking, answers verified: false and changes no port.
C6_CancelledOnFailure ==
  [][(VerifyOf(req', bookings, "pending")
        /\ req'.lookup \in {"User canceled", "Expired", "Refunded"})
       => /\ bookings' = [bookings EXCEPT ![req'.bookingId].status = "cancelled"]
          /\ ports' = ports
          /\ resp'.status = 200
          /\ resp'.verified = "false"]_vars

\* a booking cancelled by a verify that found Refunded
C6_Witness ==
  /\ req.op = "verify"
  /\ req.lookup = "Refunded"
  /\ req.bookingId \in 1 .. Len(bookings)
  /\ bookings[req.bookingId].status = "cancelled"
  /\ bookings[req.bookingId].userId = req.caller
  /\ resp.verified = "false"

\* C7 as stated: every gateway status other than Completed, User canceled,
\* Expired and Refunded leaves a pending booking pending and writes nothing.
C7_Original ==
  [][(VerifyOf(req', bookings, "pending")
        /\ req'.lookup \notin {"Completed", "User canceled", "Expired", "Refunded"})
       => (bookings' = bookings /\ ports' = ports)]_vars

\* C7 amended: every gateway status other than Completed, User canceled,
\* Expired, Refunded and Partially refunded leaves a pending booking pending,
\* writes neither the booking nor a port and answers verified: false.
C7_OtherStatusesLeavePending ==
  [][(VerifyOf(req', bookings, "pending")
        /\ req'.lookup \notin {"Completed", "User canceled", "Expired",
                               "Refunded", "Partially refunded"})
       => /\ bookings' = bookings
          /\ ports' = ports
          /\ resp'.status = 200
          /\ resp'.verified = "false"]_vars

\* a verify that found Initiated for a booking that is still pending
C7_Witness ==
  /\ req.op = "verify"
  /\ req.lookup = "Initiated"
  /\ req.bookingId \in 1 .. Len(bookings)
  /\ bookings[req.bookingId].status = "pending"
  /\ bookings[req.bookingId].userId = req.caller
  /\ resp.status = 200
  /\ resp.verified = "false"

\* C8: a booking whose status is completed, cancelled or no-show keeps that
\* status in every later step.
C8_TerminalAbsorbing ==
  [][\A i \in 1 .. Len(bookings) :
       bookings[i].status \in Terminal
         => bookings'[i].status = bookings[i].status]_vars

\* C9 as stated: a new booking is stored either pending with source online or
\* active with a walk-in source.
C9_Original ==
  [][Len(bookings') > Len(bookings)
       => LET b == LastBooking(bookings')
          IN \/ b.status = "pending" /\ b.source = "online"
             \/ b.status = "active" /\ b.source \in WalkInSources]_vars

\* C9 amended: a handler stores at most one new booking, and stores it
\* pending with source online (initiate), active with source walk-in-qr
\* (check-in), active with source walk-in-manual (admin start) or completed
\* with source walk-in-manual (admin log).
C9_InitialStatus ==
  [][Len(bookings') # Len(bookings)
       => /\ Len(bookings') = Len(bookings) + 1
          /\ LET b == LastBooking(bookings')
             IN \/ req'.op = "initiate" /\ b.status = "pending"
                   /\ b.source = "online"
                \/ req'.op = "checkin" /\ b.status = "active"
                   /\ b.source = "walk-in-qr"
                \/ req'.op = "start" /\ b.status = "active"
                   /\ b.source = "walk-in-manual"
                \/ req'.op = "log" /\ b.status = "completed"
                   /\ b.source = "walk-in-manual"]_vars

\* a session stored by the admin log
C9_Witness ==
  /\ req.op = "log"
  /\ resp.status = 201
  /\ resp.bookingId = Len(bookings)
  /\ LastBooking(bookings).status = "completed"
  /\ LastBooking(bookings).source = "walk-in-manual"

\* C10: no two bookings on the same port with status pending, confirmed or
\* active have overlapping [start, end) intervals.
C10_NoLiveOverlap ==
  \A i \in 1 .. Len(bookings), j \in 1 .. Len(bookings) :
    (/\ i # j
     /\ bookings[i].status \in Live
     /\ bookings[j].status \in Live
     /\ BookingPort(bookings[i]) = BookingPort(bookings[j]))
      => ~Overlap(bookings[i].startTime, bookings[i].endTime,
                  bookings[j].startTime, bookings[j].endTime)

\* the port a booking refers to, as a key of ports; <<0, 0>> when it refers
\* to no port of a station
BookingPortKey(b) ==
  IF BookingPort(b)[2] = 0 THEN <<0, 0>>
  ELSE <<String(b.stationId).n, BookingPort(b)[2]>>

\* the port a request names, as a key of ports; <<0, 0>> when it names none
ReqPortKey(r) ==
  IF ReqPort(r)[2] = 0 THEN <<0, 0>> ELSE <<r.stationId.n, ReqPort(r)[2]>>

\* a walk-in start, by QR check-in or by the admin action "start"
IsWalkInStart(r) == r.op \in {"checkin", "start"}

\* C11: a walk-in start (QR check-in or admin action "start") that names a
\* port whose status is occupied, reserved or maintenance, and that is not
\* turned away for authentication, authorisation or a missing field, is
\* answered 409 and stores no booking.
C11_PortMustBeAvailable ==
  [][(/\ IsWalkInStart(req')
      /\ ReqPortKey(req') \in PortKeys
      /\ resp'.status \notin {400, 401, 403}
      /\ ports[ReqPortKey(req')].status # "available")
       => (resp'.status = 409 /\ bookings' = bookings)]_vars

\* C12: after a walk-in start answered 201 the port the new active booking
\* refers to has status occupied, whether the request named the port by its
\* _id or by its portNumber.
C12_StartOccupiesPort ==
  [][(IsWalkInStart(req') /\ resp'.status = 201)
       => LET b == LastBooking(bookings')
          IN /\ Len(bookings') = Len(bookings) + 1
             /\ b.status = "active"
             /\ BookingPortKey(b) \in PortKeys
                  => ports'[BookingPortKey(b)].status = "occupied"]_vars

\* C13: after a walk-in stop answered 200 the booking is completed and the
\* port it refers to has status available, whatever form of stationId and
\* portId the booking stores.
C13_StopFreesPort ==
  [][(req'.op = "stop" /\ resp'.status = 200)
       => LET b == bookings'[req'.bookingId]
          IN /\ b.status = "completed"
             /\ BookingPortKey(b) \in PortKeys
                  => ports'[BookingPortKey(b)].status = "available"]_vars

\* C14: a walk-in stop answered 200 stores a duration of at least one minute
\* and an amount that is not negative, whatever the clock reads at the stop,
\* a time before the booking's startTime included.
C14_StopAmounts ==
  [][(req'.op = "stop" /\ resp'.status = 200)
       => /\ bookings'[req'.bookingId].estimatedDuration >= 1
          /\ bookings'[req'.bookingId].amountPaid >= 0]_vars

\* C15: every port has at most one booking with status active.
C15_OneActivePerPort ==
  \A i \in 1 .. Len(bookings), j \in 1 .. Len(bookings) :
    (/\ i # j
     /\ bookings[i].status = "active"
     /\ bookings[j].status = "active"
     /\ BookingPortKey(bookings[i]) \in PortKeys)
      => BookingPortKey(bookings[i]) # BookingPortKey(bookings[j])

\* C16: two walk-in starts on the same port that both read before either
\* has written both succeed: each is answered 201, and the port has two
\* active bookings.
C16_RaceBothSucceed ==
  \A p \in Procs, q \in Procs :
    (/\ p # q
     /\ tx[p].pc = "done"
     /\ tx[q].pc = "done"
     /\ ReqPortKey(tx[p]) \in PortKeys
     /\ ReqPortKey(tx[p]) = ReqPortKey(tx[q])
     /\ ~tx[p].overlapping
     /\ ~tx[q].overlapping)
      => /\ tx[p].status = 201
         /\ tx[q].status = 201
         /\ \E i \in 1 .. Len(bookings), j \in 1 .. Len(bookings) :
              /\ i # j
              /\ bookings[i].status = "active"
              /\ bookings[j].status = "active"
              /\ BookingPortKey(bookings[i]) = ReqPortKey(tx[p])
              /\ BookingPortKey(bookings[j]) = ReqPortKey(tx[p])

\* two QR check-ins that name the same port by the same id, both answered
\* 201, and two active bookings on that port
C16_Witness ==
  /\ \A p \in Procs : tx[p].pc = "done" /\ tx[p].status = 201
  /\ \A p \in Procs : tx[p].op = "checkin" /\ tx[p].portId = tx[1].portId
  /\ Len(bookings) = 2
  /\ bookings[1].status = "active"
  /\ bookings[2].status = "active"
  /\ BookingPortKey(bookings[1]) \in PortKeys
  /\ BookingPortKey(bookings[1]) = BookingPortKey(bookings[2])

\* an initiate request whose gateway call failed after the commit
GatewayFailed(r, a) ==
  r.op = "initiate" /\ a.status = 500 /\ a.error = "Failed to initiate payment"

\* C17: when the gateway call of initiate fails after the transaction has
\* committed, the request is answered 500 and the booking stays stored as
\* the transaction created it: pending, without payment reference, amount,
\* QR code, user location or ETA; no other booking changes.
C17_GatewayFailureLeavesPending ==
  [][GatewayFailed(req', resp')
       => /\ Len(bookings') = Len(bookings) + 1
          /\ SubSeq(bookings', 1, Len(bookings)) = bookings
          /\ LastBooking(bookings') =
               NewBooking(req'.caller, BsonStr(req'.stationId),
                          BsonStr(req'.portId), req'.startTime, req'.endTime,
                          req'.duration, "pending", "online", 0)
          /\ LastBooking(bookings').khaltiPidx = 0
          /\ ~LastBooking(bookings').qrCode
          /\ LastBooking(bookings').eta = 0]_vars

\* a request that sent the user's location and whose gateway call failed
C17_Witness ==
  /\ GatewayFailed(req, resp)
  /\ req.loc # 0
  /\ Len(bookings) >= 1
  /\ LastBooking(bookings).status = "pending"
  /\ LastBooking(bookings).khaltiPidx = 0

\* C20: verify sets a booking to confirmed only when the pidx of the request
\* is the payment reference stored on that booking.
C20_ConfirmOnlyOwnPidx ==
  [][(/\ req'.op = "verify"
      /\ req'.bookingId \in 1 .. Len(bookings)
      /\ bookings[req'.bookingId].status # "confirmed"
      /\ bookings'[req'.bookingId].status = "confirmed")
       => req'.pidx = bookings[req'.bookingId].khaltiPidx]_vars

\* the routes that ask for a session; the QR check-in is public
NeedsAuth(r) ==
  r.op \in {"initiate", "verify", "patch", "start", "stop", "log", "refresh"}

\* C18 as stated: a request answered 400 has written nothing to the
\* database.
C18_Original ==
  [][resp'.status = 400
       => (bookings' = bookings /\ ports' = ports /\ users' = users)]_vars

\* C18 amended: a request without a session to a route that asks for one is
\* answered 401 and writes nothing; a request answered 400 has written no
\* booking and no port, and the only document written before a 400 is the
\* caller's own User document, created by payments/initiate.
C18_AuthThenValidation ==
  [][/\ (NeedsAuth(req') /\ req'.caller = NoUser)
          => /\ resp'.status = 401
             /\ bookings' = bookings /\ ports' = ports /\ users' = users
     /\ resp'.status = 400
          => /\ bookings' = bookings
             /\ ports' = ports
             /\ users' # users
                  => (req'.op = "initiate" /\ users' = users \cup {req'.caller})
    ]_vars

\* the first request of a new user to payments/initiate, answered 400 with
\* the User document created
C18_Witness ==
  /\ req.op = "initiate"
  /\ resp.status = 400
  /\ req.caller \in users \ SeededUsers
  /\ bookings = <<>>

\* a call of haversineDistance that has returned
Returned == req.op = "haversine" /\ resp # Resp0

C21_VerifyOthersForbidden ==
  [][(/\ req'.op = "verify"
      /\ req'.caller # NoUser
      /\ req'.pidx # 0
      /\ req'.bookingId \in 1 .. Len(bookings)
      /\ bookings[req'.bookingId].userId # req'.caller)
       => /\ resp'.status = 403
          /\ bookings' = bookings
          /\ ports' = ports]_vars

\* a verify of another user's pending booking for which the gateway reports
\* Completed
C21_Witness ==
  /\ req.op = "verify"
  /\ req.lookup = "Completed"
  /\ req.bookingId \in 1 .. Len(bookings)
  /\ bookings[req.bookingId].userId # req.caller
  /\ bookings[req.bookingId].status = "pending"
  /\ resp.status = 403

\* a port PATCH or walk-in start that names an existing station, or a stop
\* of an active booking at an existing station: the station; 0 otherwise
AdminTarget(r, bks) ==
  IF r.op = "patch" /\ FindStation(r.stationId) > 0 THEN FindStation(r.stationId)
  ELSE IF r.op = "start" /\ r.portId # NoText /\ FindStation(r.stationId) > 0
  THEN FindStation(r.stationId)
  ELSE IF r.op = "stop" /\ StopFound(bks, r.bookingId)
  THEN StopStation(bks[r.bookingId])
  ELSE 0

\* C22: a port PATCH, walk-in start or walk-in stop by a regular admin at a
\* station whose adminId is another user is answered 403 and changes no
\* booking and no port; the same requests by a superadmin are never
\* answered 403.
C22_AdminOwnStationOnly ==
  [][/\ (/\ AdminTarget(req', bookings) # 0
         /\ Role(req'.caller) = "admin"
         /\ adminId(AdminTarget(req', bookings)) # req'.caller)
          => /\ resp'.status = 403
             /\ bookings' = bookings
             /\ ports' = ports
     /\ (AdminTarget(req', bookings) # 0 /\ Role(req'.caller) = "superadmin")
          => resp'.status # 403
    ]_vars

\* a stop of an active session by an admin of another station, refused
C22_Witness ==
  /\ req.op = "stop"
  /\ Role(req.caller) = "admin"
  /\ StopFound(bookings, req.bookingId)
  /\ StopStation(bookings[req.bookingId]) # 0
  /\ adminId(StopStation(bookings[req.bookingId])) # req.caller
  /\ resp.status = 403

\* a PATCH by an admin entitled to the station it names, with a portId and a
\* status in the body
PatchReachesStatus(r) ==
  /\ r.op = "patch"
  /\ IsAdminRole(r.caller)
  /\ FindStation(r.stationId) > 0
  /\ (Role(r.caller) = "superadmin" \/ adminId(FindStation(r.stationId)) = r.caller)
  /\ r.portId # NoText
  /\ r.status # "na"

\* C23: a port PATCH changes no booking; answered 200 it gives the addressed
\* port the requested status, clears that port's currentBookingId exactly
\* when the status is available, and leaves every other port as it was;
\* answered otherwise it changes no port; a status outside available,
\* occupied, maintenance, reserved is answered 400.
C23_PatchFrame ==
  [][req'.op = "patch"
       => /\ bookings' = bookings
          /\ resp'.status = 200
               => /\ ReqPortKey(req') \in PortKeys
                  /\ ports' =
                       [ports EXCEPT
                          ![ReqPortKey(req')] =
                            [status |-> req'.status,
                             currentBookingId |->
                               IF req'.status = "available" THEN 0
                               ELSE ports[ReqPortKey(req')].currentBookingId]]
          /\ resp'.status # 200 => ports' = ports
          /\ (/\ PatchReachesStatus(req')
              /\ req'.status \notin {"available", "occupied", "maintenance",
                                     "reserved"})
               => resp'.status = 400]_vars

\* a port that kept its currentBookingId when it was set to maintenance
C23_Witness ==
  /\ req.op = "patch"
  /\ resp.status = 200
  /\ req.status = "maintenance"
  /\ ReqPortKey(req) \in PortKeys
  /\ ports[ReqPortKey(req)].status = "maintenance"
  /\ ports[ReqPortKey(req)].currentBookingId # 0

\* C24: a stop by an admin that names a booking that does not exist, or one
\* whose status is not active, is answered 404 and changes no booking and no
\* port.
C24_StopOnlyActive ==
  [][(/\ req'.op = "stop"
      /\ IsAdminRole(req'.caller)
      /\ req'.bookingId # 0
      /\ \/ req'.bookingId \notin 1 .. Len(bookings)
         \/ bookings[req'.bookingId].status # "active")
       => /\ resp'.status = 404
          /\ bookings' = bookings
          /\ ports' = ports]_vars

\* the second stop of a walk-in session
C24_Witness ==
  /\ req.op = "stop"
  /\ resp.status = 404
  /\ req.bookingId \in 1 .. Len(bookings)
  /\ bookings[req.bookingId].status = "completed"
  /\ bookings[req.bookingId].source = "walk-in-qr"
  /\ bookings[req.bookingId].endTime = 0
  /\ clock > 0

\* a booking without its userLocation and eta
WithoutEta(b) == [b EXCEPT !.userLocation = 0, !.eta = 0]

\* C25: refresh-eta changes no port; answered 200 it was sent by the owner
\* of the booking or by an admin or superadmin, and has written the
\* userLocation and eta of the addressed booking and nothing else; answered
\* otherwise it changes no booking; a caller who neither owns the booking
\* nor has an admin role is answered 403.
C25_RefreshFrame ==
  [][req'.op = "refresh"
       => /\ ports' = ports
          /\ resp'.status = 200
               => /\ req'.bookingId \in 1 .. Len(bookings)
                  /\ \/ bookings[req'.bookingId].userId = req'.caller
                     \/ Role(req'.caller) \in {"admin", "superadmin"}
                  /\ Len(bookings') = Len(bookings)
                  /\ \A i \in 1 .. Len(bookings) :
                       WithoutEta(bookings'[i]) = WithoutEta(bookings[i])
                  /\ \A i \in 1 .. Len(bookings) :
                       i # req'.bookingId => bookings'[i] = bookings[i]
                  /\ bookings'[req'.bookingId].userLocation = req'.loc
                  /\ bookings'[req'.bookingId].eta # 0
          /\ resp'.status # 200 => bookings' = bookings
          /\ (/\ req'.caller # NoUser
              /\ req'.loc # 0
              /\ req'.bookingId \in 1 .. Len(bookings)
              /\ bookings[req'.bookingId].userId # req'.caller
              /\ Role(req'.caller) \notin {"admin", "superadmin"})
               => resp'.status = 403]_vars

\* an admin's refresh of a user's booking that wrote the location and ETA
C25_Witness ==
  /\ req.op = "refresh"
  /\ resp.status = 200
  /\ req.bookingId \in 1 .. Len(bookings)
  /\ bookings[req.bookingId].userId # req.caller
  /\ bookings[req.bookingId].userLocation = req.loc
  /\ bookings[req.bookingId].eta # 0
  /\ bookings[req.bookingId].status = "cancelled"

\* the form handler has run
Submitted == req.op = "submit" /\ resp # Resp0

\* the minute of its start day at which a submitted session starts
StartOfDayMinute == req.selectedTime[1] * 60 + req.selectedTime[2]

\* C26: a submission the form lets through, for a station with operating
\* hours, starts at or after the opening time and ends, counted on the
\* start day, at or before the closing time.
C26_FormBlocksOutsideHours ==
  (Submitted /\ resp.submitting /\ req.operatingHours # <<>>)
    => /\ StartOfDayMinute >= req.operatingHours[1][1] * 60
                                + req.operatingHours[1][2]
       /\ StartOfDayMinute + req.selectedDuration
            <= req.operatingHours[2][1] * 60 + req.operatingHours[2][2]

\* C27: every stored booking starts before it ends and has an
\* estimatedDuration between MIN_BOOKING_DURATION_MINUTES and
\* MAX_BOOKING_DURATION_MINUTES, whatever numeric duration initiate and
\* whatever start and end the admin log were sent.
C27_StoredDurationsInRange ==
  \A i \in 1 .. Len(bookings) :
    /\ bookings[i].startTime < bookings[i].endTime
    /\ bookings[i].estimatedDuration >= MIN_BOOKING_DURATION_MINUTES
    /\ bookings[i].estimatedDuration <= MAX_BOOKING_DURATION_MINUTES

\* C28: a port whose status is available has no currentBookingId.
C28_AvailableHasNoBooking ==
  \A p \in PortKeys :
    ports[p].status = "available" => ports[p].currentBookingId = 0

\* an active walk-in booking is the current booking of occupied port p
WalkInActiveOn(p) ==
  /\ ports[p].status = "occupied"
  /\ ports[p].currentBookingId \in 1 .. Len(bookings)
  /\ bookings[ports[p].currentBookingId].status = "active"
  /\ bookings[ports[p].currentBookingId].source # "online"

\* C29: a verify leaves the status and the currentBookingId of a port alone
\* while a walk-in booking is active on it.
C29_VerifyKeepsWalkInPort ==
  [][req'.op = "verify"
       => \A p \in PortKeys : WalkInActiveOn(p) => ports'[p] = ports[p]]_vars

\* C30: an admin's stop of an online booking is answered 404 and changes
\* no booking and no port.
C30_StopOnlyWalkIn ==
  [][(/\ req'.op = "stop"
      /\ IsAdminRole(req'.caller)
      /\ req'.bookingId \in 1 .. Len(bookings)
      /\ bookings[req'.bookingId].source = "online")
       => /\ resp'.status = 404
          /\ bookings' = bookings
          /\ ports' = ports]_vars

====
